---- MODULE Spec2Model ----
(***************************************************************************)
(* ZoneWidget editor (zw-editor.js): the zone set of one mounted editor,   *)
(* its mode, the DOM it projects to, and the handlers that change them;    *)
(* the document in which the editor and the viewer (zw-render.js) load     *)
(* Leaflet, with the mount calls that wait for it; and the layers a        *)
(* mounted viewer shows.  Spec, SpecMalformed, SpecDuplicate and           *)
(* SpecDecode are one mounted editor under four families of payloads,      *)
(* SpecOverlap is the editor with two file reads in flight, SpecHost the   *)
(* editor with a host that changes what getZones returned, SpecLoad the    *)
(* mount calls of the editor on a fresh page, SpecView the viewers of a    *)
(* page, each with its data or the response to its fetch.                  *)
(*                                                                         *)
(* Values.  An id is the string "z_<random>_<time>" built by makeId, or a  *)
(* string that came in with an imported element.  It is modelled as a      *)
(* record [src, rnd, t]: src = "gen" for a makeId result with its random   *)
(* token and its Date.now() reading, src = "ext" for a foreign string, and *)
(* src = "none" for a falsy id (undefined, "", 0).  Numbers are integers;  *)
(* 0 stands for every input that Number(x) || d replaces by d (undefined   *)
(* and non-numeric strings give NaN, null and 0 give 0).  A geometry is a  *)
(* name; what Leaflet does with it is given by Throws and ValidBounds.     *)
(* Date.now() is the variable now; one handler run reads one value of it,  *)
(* and a handler run that stored a reading is followed by a later reading. *)
(* A foreign id is taken not to have the form of an id makeId builds later. *)
(***************************************************************************)
EXTENDS Integers, Sequences, FiniteSets, TLC

VARIABLES
  src,           \* the payloads the host and the user's files can hold
  limit,         \* options.limit
  mode,          \* state.mode
  zones,         \* state.zones
  now,           \* Date.now()
  mapZoom,       \* map.getZoom()
  mapCenter,     \* map.getCenter()
  drawControlOn, \* drawControl is on the map
  mainLayers,    \* the layers of zonesLayer (and of drawn)
  grid,          \* the cards of gridEl
  drawHidden,    \* root has class zw-draw-hidden
  hint,          \* which message hintEl shows
  actionsBar,    \* which of editActions / viewActions is displayed
  pending,       \* file reads in flight (fileImport handlers at their await)
  overtaken,     \* of these, how many are of a file selected before one already read
  held,          \* what the host did with the result of getZones, and what it holds
  last,          \* the last handler run: what it was given and how it ended
  assets,        \* the <link> and <script> elements the loaders put in the document
  libs,          \* window.L and L.Control.Draw
  mounts,        \* the calls of ZoneWidget.mount: where each is, how it ended
  viewers,       \* the calls of ZoneMapViewer.mount and the layers each shows
  vlast          \* the last setData of a viewer: its payload and outcome

vars == <<src, limit, mode, zones, now, mapZoom, mapCenter, drawControlOn,
          mainLayers, grid, drawHidden, hint, actionsBar, pending, overtaken,
          held, last, assets, libs, mounts, viewers, vlast>>

editorVars == <<src, limit, mode, zones, now, mapZoom, mapCenter, drawControlOn,
                mainLayers, grid, drawHidden, hint, actionsBar, pending, overtaken,
                held, last>>
pageVars == <<assets, libs, mounts, viewers, vlast>>

domVars == <<drawControlOn, mainLayers, grid, drawHidden, hint, actionsBar>>
mapVars == <<mapZoom, mapCenter>>

----------------------------------------------------------------------------
(* Bounds of the model *)

MaxLimit == 2
MaxClock == 3
MaxPending == 1
MaxMounts == 2

----------------------------------------------------------------------------
(* Program constants *)

DefaultZoom == 14
InitZoom == 12
MaxCreatedZoom == 17
FallbackCenter == <<43, 76>>

----------------------------------------------------------------------------
(* Value domains *)

Min(a, b) == IF a <= b THEN a ELSE b

NoId == [src |-> "none", rnd |-> 0, t |-> 0]
ExtA == [src |-> "ext", rnd |-> 1, t |-> 0]
ExtB == [src |-> "ext", rnd |-> 2, t |-> 0]
\* Values of Math.random().  The code only compares ids for equality and two
\* ids built at different times differ, so the draws of one handler run are
\* taken up to renaming: its first draw is called 0, a later draw of the
\* same run is 0 again (a repeated value) or 1.
Rand == {0, 1}
Draws(n) == {rs \in [1..n -> Rand] : n >= 1 => rs[1] = 0}

\* options.mode is whatever the host passes
ModeOptions == {"edit", "view", "preview"}
\* the shape the draw toolbar produces (a polygon or a rectangle)
DrawGeo == {"gA"}

\* L.geoJSON(g) throws 'Invalid GeoJSON object.'
Throws(g) == g = "gBad"
\* L.geoJSON(g).getBounds().isValid()
ValidBounds(g) == g \in {"gA", "gB"}
BoundsCenter(g) == IF g = "gA" THEN <<10, 10>> ELSE <<20, 20>>
\* the zoom map.fitBounds settles on: gA spans the world, gB a street
FitZoom(g) == IF g = "gA" THEN 0 ELSE 18

NotArr == [arr |-> FALSE, v |-> <<>>]
Arr(c) == [arr |-> TRUE, v |-> c]

\* elements of a payload
ZFull == [id |-> ExtA, createdAt |-> 5, geojson |-> "gA", center |-> Arr(<<1, 1>>), zoom |-> 17]
ZBare == [id |-> NoId, createdAt |-> 0, geojson |-> "gB", center |-> NotArr, zoom |-> 0]
ZNoGeo == [id |-> ExtB, createdAt |-> 5, geojson |-> "none", center |-> Arr(<<1, 1>>), zoom |-> 17]
ZBadGeo == [id |-> ExtB, createdAt |-> 5, geojson |-> "gBad", center |-> Arr(<<2, 2>>), zoom |-> 17]
Elems == {ZFull, ZBare, ZNoGeo, ZBadGeo}

\* what setZones can be called with, and what a file can hold: an array,
\* {zones: [...]}, or anything else
Array(s) == [kind |-> "array", zones |-> s]
Envelope(s) == [kind |-> "envelope", zones |-> s]
POther == [kind |-> "other", zones |-> <<>>]
NoPayload == [kind |-> "none", zones |-> <<>>]

\* payloads whose geometries Leaflet can draw
Payloads ==
  {POther,
   Array(<<>>),
   Array(<<ZFull>>),
   Envelope(<<ZBare, ZFull, ZBare>>),
   Envelope(<<ZFull, ZBare, ZNoGeo>>),
   Array(<<ZNoGeo, ZFull>>)}

\* payloads with a geometry that L.geoJSON rejects
PayloadsMalformed ==
  {POther,
   Array(<<ZFull>>),
   Array(<<ZBadGeo, ZFull>>),
   Array(<<ZNoGeo, ZFull>>)}

\* payloads in which two elements carry the same id
PayloadsDuplicate ==
  {POther,
   Array(<<ZFull>>),
   Array(<<ZFull, ZFull>>)}

\* payloads of files that differ in what they hold
PayloadsOverlap ==
  {Array(<<>>),
   Array(<<ZFull>>),
   Array(<<ZBare, ZFull>>)}

\* payloads of one zone and of two
PayloadsHost ==
  {Array(<<ZFull>>),
   Array(<<ZBare, ZFull>>)}

\* elements in every combination of a given and a missing field, the center
\* being no array, [lat, lng] or [lat, lng, alt]
DecodeElems ==
  {[id |-> i, createdAt |-> c, geojson |-> "gA", center |-> ce, zoom |-> zo] :
     i \in {NoId, ExtA}, c \in {0, 5},
     ce \in {NotArr, Arr(<<1, 1>>), Arr(<<1, 1, 1>>)}, zo \in {0, 17}}

\* payloads of one element each
PayloadsDecode == {POther} \cup {Array(<<e>>) : e \in DecodeElems}

\* files the user can select: text that JSON.parse accepts or not
FGarbage == [parse |-> FALSE, json |-> NoPayload]
FilesOf(ps) == {FGarbage} \cup {[parse |-> TRUE, json |-> p] : p \in ps}

\* what the last handler run was: its name, its outcome, whether a render
\* threw, the payload it was given or produced, and the id it was given
Ev(op, res, threw, input, id) ==
  [op |-> op, res |-> res, threw |-> threw, input |-> input, id |-> id]
Last(op, res) == Ev(op, res, FALSE, NoPayload, NoId)

\* a guard that lets every mode through
PermittedAlways(m) == TRUE

\* the guard of the handlers of the user interface: state.mode === "edit"
Permitted(m) == m = "edit"

----------------------------------------------------------------------------
(* Helpers of the editor *)

\* an id built from the random token alone
MakeIdNoTime(r, t) == [src |-> "gen", rnd |-> r, t |-> 0]

\* makeId: "z_" + random + "_" + Date.now()
MakeId(r, t) == [src |-> "gen", rnd |-> r, t |-> t]

\* safeBoundsFromGeo: a bounds object, or null when L.geoJSON throws or the
\* bounds are not valid
safeBoundsFromGeo(g) == ~Throws(g) /\ ValidBounds(g)

\* normalizeImport, first map: one retained element
NormalizeZone(z, t, r) ==
  [id |-> IF z.id # NoId THEN z.id ELSE MakeId(r, t),
   createdAt |-> IF z.createdAt # 0 THEN z.createdAt ELSE t,
   geojson |-> z.geojson,
   center |-> IF z.center.arr THEN z.center.v
              ELSE IF ~Throws(z.geojson) /\ ValidBounds(z.geojson)
                   THEN BoundsCenter(z.geojson)
                   ELSE FallbackCenter,
   zoom |-> IF z.zoom # 0 THEN z.zoom ELSE DefaultZoom]

\* the array without the cut at limit
SliceAll(raw, lim) == raw

\* raw.slice(0, limit)
Slice(raw, lim) == SubSeq(raw, 1, Min(Len(raw), lim))

\* the calls of Math.random() up to element i: one per element without id
DrawsUpTo(sl, i) == Cardinality({j \in 1..i : sl[j].id = NoId})

\* the calls of Math.random() normalizeImport(payload, limit) makes
DrawCount(payload, lim) ==
  DrawsUpTo(Slice(payload.zones, lim), Len(Slice(payload.zones, lim)))

\* a normalizeImport that keeps the last limit elements instead of the first
normalizeImportTail(payload, lim, t, rs) ==
  IF payload.kind \notin {"array", "envelope"}
  THEN [ok |-> FALSE, err |-> "format", zones |-> <<>>]
  ELSE LET n == Len(payload.zones)
           sl == SubSeq(payload.zones, n - Min(n, lim) + 1, n)
       IN IF \E i \in 1..Len(sl) : sl[i].geojson = "none"
          THEN [ok |-> FALSE, err |-> "nogeo", zones |-> <<>>]
          ELSE [ok |-> TRUE, err |-> "",
                zones |-> [i \in 1..Len(sl) |-> NormalizeZone(sl[i], t, 0)]]

\* normalizeImport(payload, limit): the zones, or the error it throws; t is
\* Date.now() and rs are the values of Math.random(), in call order
normalizeImport(payload, lim, t, rs) ==
  IF payload.kind \notin {"array", "envelope"}
  THEN [ok |-> FALSE, err |-> "format", zones |-> <<>>]
  ELSE LET sl == Slice(payload.zones, lim)
       IN IF \E i \in 1..Len(sl) : sl[i].geojson = "none"
          THEN [ok |-> FALSE, err |-> "nogeo", zones |-> <<>>]
          ELSE [ok |-> TRUE, err |-> "",
                zones |-> [i \in 1..Len(sl) |->
                            NormalizeZone(sl[i], t,
                                          IF sl[i].id = NoId THEN rs[DrawsUpTo(sl, i)] ELSE 0)]]

\* does normalizeImport store a reading of Date.now() ?
ReadsClock(payload, lim) ==
  /\ payload.kind \in {"array", "envelope"}
  /\ \E i \in 1..Len(Slice(payload.zones, lim)) :
       payload.zones[i].id = NoId \/ payload.zones[i].createdAt = 0

\* JSON.stringify of a stored zone, read back by JSON.parse
ToJson(z) ==
  [id |-> z.id, createdAt |-> z.createdAt, geojson |-> z.geojson,
   center |-> Arr(z.center), zoom |-> z.zoom]

\* the payload of btnExport: { version, exportedAt, meta, zones: state.zones }
ExportPayload(zs) ==
  [kind |-> "envelope", zones |-> [i \in 1..Len(zs) |-> ToJson(zs[i])]]

----------------------------------------------------------------------------
(* Rendering *)

FirstThrow(zs) ==
  IF \E i \in 1..Len(zs) : Throws(zs[i].geojson)
  THEN CHOOSE i \in 1..Len(zs) :
         /\ Throws(zs[i].geojson)
         /\ \A j \in 1..(i - 1) : ~Throws(zs[j].geojson)
  ELSE 0

\* a render of the main map that leaves out the last zone
renderZonesOnMainShort(zs) ==
  [threw |-> FALSE, layers |-> [i \in 1..(Len(zs) - 1) |-> zs[i].geojson]]

\* renderZonesOnMain: clear, then one layer per zone until L.geoJSON throws
renderZonesOnMain(zs) ==
  LET k == FirstThrow(zs)
  IN IF k = 0
     THEN [threw |-> FALSE, layers |-> [i \in 1..Len(zs) |-> zs[i].geojson]]
     ELSE [threw |-> TRUE, layers |-> [i \in 1..(k - 1) |-> zs[i].geojson]]

\* a card whose mini map cannot be built: L.map finds the container of an
\* earlier card with the same id already initialised, or L.geoJSON throws
CardThrows(zs, i) ==
  \/ \E j \in 1..(i - 1) : zs[j].id = zs[i].id
  \/ Throws(zs[i].geojson)

FirstCardThrow(zs) ==
  IF \E i \in 1..Len(zs) : CardThrows(zs, i)
  THEN CHOOSE i \in 1..Len(zs) :
         /\ CardThrows(zs, i)
         /\ \A j \in 1..(i - 1) : ~CardThrows(zs, j)
  ELSE 0

\* renderGrid: one card per zone, appended before its mini map is built
renderGrid(zs, m) ==
  LET k == FirstCardThrow(zs)
      n == IF k = 0 THEN Len(zs) ELSE k
  IN [threw |-> k # 0,
      cards |-> [i \in 1..n |-> [id |-> zs[i].id, del |-> (m = "edit")]]]

\* hints that report the limit only once it is exceeded
HintForStrict(zs, m, lim) ==
  IF m = "edit" /\ Len(zs) > lim THEN "limit"
  ELSE IF m = "edit" THEN "edit"
  ELSE "view"

\* hints that take every mode for edit
HintForEditOnly(zs, m, lim) ==
  IF Len(zs) >= lim THEN "limit" ELSE "edit"

\* the three hints of applyDrawAvailability
HintFor(zs, m, lim) ==
  IF m = "edit" /\ Len(zs) >= lim THEN "limit"
  ELSE IF m = "edit" THEN "edit"
  ELSE "view"

\* an applyDrawAvailability that looks at the mode alone
applyDrawAvailabilityModeOnly(d, zs, m, lim) ==
  [d EXCEPT !.drawHidden = ~(m = "edit"),
            !.hint = HintFor(zs, m, lim),
            !.actionsBar = IF m = "edit" THEN "edit"
                           ELSE IF m = "view" THEN "view" ELSE "none"]

\* applyDrawAvailability on the DOM d, for the zone set zs in mode m
applyDrawAvailability(d, zs, m, lim) ==
  [d EXCEPT !.drawHidden = ~(m = "edit" /\ ~(Len(zs) >= lim)),
            !.hint = HintFor(zs, m, lim),
            !.actionsBar = IF m = "edit" THEN "edit"
                           ELSE IF m = "view" THEN "view" ELSE "none"]

\* applyMode on the DOM d, for the zone set zs in mode m: the DOM it leaves
\* and whether it threw; an exception of a render leaves the rest undone
applyMode(d, zs, m, lim) ==
  LET main == renderZonesOnMain(zs)
      gr == renderGrid(zs, m)
      d1 == [d EXCEPT !.drawControlOn = (m = "edit"), !.mainLayers = main.layers]
      d2 == [d1 EXCEPT !.grid = gr.cards]
  IN IF main.threw THEN [threw |-> TRUE, dom |-> d1]
     ELSE IF gr.threw THEN [threw |-> TRUE, dom |-> d2]
     ELSE [threw |-> FALSE, dom |-> applyDrawAvailability(d2, zs, m, lim)]

\* the DOM of the widget as one record, and its assignment
Dom ==
  [drawControlOn |-> drawControlOn, mainLayers |-> mainLayers, grid |-> grid,
   drawHidden |-> drawHidden, hint |-> hint, actionsBar |-> actionsBar]

SetDom(d) ==
  \E dom \in {d} :
    /\ drawControlOn' = dom.drawControlOn
    /\ mainLayers' = dom.mainLayers
    /\ grid' = dom.grid
    /\ drawHidden' = dom.drawHidden
    /\ hint' = dom.hint
    /\ actionsBar' = dom.actionsBar

\* a focusZone that never fits the bounds
focusZoneCenterOnly(z) ==
  /\ mapCenter' = z.center
  /\ mapZoom' = IF z.zoom # 0 THEN z.zoom ELSE DefaultZoom

\* focusZone: fit the bounds, else the zone's center at its zoom (or 14)
focusZone(z) ==
  IF safeBoundsFromGeo(z.geojson)
  THEN /\ mapCenter' = BoundsCenter(z.geojson)
       /\ mapZoom' = FitZoom(z.geojson)
  ELSE /\ mapCenter' = z.center
       /\ mapZoom' = IF z.zoom # 0 THEN z.zoom ELSE DefaultZoom

\* state.zones.find / findIndex: the first index with that id, 0 if none
FindIndex(zs, id) ==
  IF \E i \in 1..Len(zs) : zs[i].id = id
  THEN CHOOSE i \in 1..Len(zs) :
         /\ zs[i].id = id
         /\ \A j \in 1..(i - 1) : zs[j].id # id
  ELSE 0

\* a splice that removes everything from idx on
SpliceFrom(zs, idx) == SubSeq(zs, 1, idx - 1)

\* state.zones.splice(idx, 1)
Splice(zs, idx) ==
  [i \in 1..(Len(zs) - 1) |-> IF i < idx THEN zs[i] ELSE zs[i + 1]]

----------------------------------------------------------------------------
(* The document: assets, globals, and the mount calls of the editor *)

MountIds == 1..MaxMounts

LeafletCss == "zw_leaflet_css"
LeafletJs == "zw_leaflet_js"
DrawCss == "zw_draw_css"
DrawJs == "zw_draw_js"
ViewerCss == "zmw_leaflet_css"
ViewerJs == "zmw_leaflet_js"
EditorAssets == {LeafletCss, LeafletJs, DrawCss, DrawJs}
ViewerAssets == {ViewerCss, ViewerJs}
AssetIds == EditorAssets \cup ViewerAssets
Scripts == {LeafletJs, DrawJs, ViewerJs}

\* a promise that is already resolved
NoWait == "none"

\* loadCSSOnce / loadScriptOnce(id): an element with that id resolves the
\* promise at once, whatever its state; else the element is inserted and the
\* promise waits for its load or error event
LoadOnce(as, id) ==
  IF as[id] # "absent"
  THEN [assets |-> as, wait |-> NoWait]
  ELSE [assets |-> [as EXCEPT ![id] = "loading"], wait |-> id]

\* a loader that waits for the element it finds while it is still loading
LoadOnceShared(as, id) ==
  IF as[id] = "absent"
  THEN [assets |-> [as EXCEPT ![id] = "loading"], wait |-> id]
  ELSE [assets |-> as, wait |-> IF as[id] = "loading" THEN id ELSE NoWait]

\* the promise a call waits for is settled
Settled(w) == IF w = NoWait THEN TRUE ELSE assets[w] \in {"loaded", "failed"}

\* a call of ZoneWidget.mount that has not been made; late marks a call made
\* after the error event of a script
IdleMount == [pc |-> "idle", wait |-> NoWait, out |-> "", built |-> FALSE, late |-> FALSE]

\* the load event of an element: a script runs, leaflet.js defines window.L
\* and leaflet.draw.js defines L.Control.Draw, which needs window.L
AssetLoaded(a) ==
  /\ assets[a] = "loading"
  /\ assets' = [assets EXCEPT ![a] = "loaded"]
  /\ libs' = IF a \in {LeafletJs, ViewerJs} THEN [L |-> TRUE, Draw |-> FALSE]
             ELSE IF a = DrawJs THEN [libs EXCEPT !.Draw = libs.L]
             ELSE libs
  /\ UNCHANGED <<editorVars, mounts, viewers, vlast>>

\* the error event of an element
AssetFailed(a) ==
  /\ assets[a] = "loading"
  /\ assets' = [assets EXCEPT ![a] = "failed"]
  /\ UNCHANGED <<editorVars, libs, mounts, viewers, vlast>>

\* ensureLeafletAndDraw from the test of L.Control.Draw on: load the draw
\* stylesheet, or resolve; ms are the mount calls as they are by then
CheckDraw(m, ms) ==
  IF libs.L /\ libs.Draw
  THEN /\ mounts' = [ms EXCEPT ![m].pc = "ready", ![m].wait = NoWait]
       /\ UNCHANGED assets
  ELSE /\ assets' = LoadOnce(assets, DrawCss).assets
       /\ mounts' = [ms EXCEPT ![m].pc = "drawCss",
                               ![m].wait = LoadOnce(assets, DrawCss).wait]

\* ZoneWidget.mount(target, options) up to the first await of
\* ensureLeafletAndDraw; the calls are numbered in the order they are made
MountStart(m) ==
  /\ mounts[m].pc = "idle"
  /\ \A k \in MountIds : k < m => mounts[k].pc # "idle"
  /\ UNCHANGED <<editorVars, libs, viewers, vlast>>
  /\ LET ms == [mounts EXCEPT ![m].late = \E a \in Scripts : assets[a] = "failed"]
     IN IF ~libs.L
        THEN /\ assets' = LoadOnce(assets, LeafletCss).assets
             /\ mounts' = [ms EXCEPT ![m].pc = "leafletCss",
                                     ![m].wait = LoadOnce(assets, LeafletCss).wait]
        ELSE CheckDraw(m, ms)

\* after await loadCSSOnce(leaflet.css): loadScriptOnce(leaflet.js)
AfterLeafletCss(m) ==
  /\ mounts[m].pc = "leafletCss"
  /\ Settled(mounts[m].wait)
  /\ UNCHANGED <<editorVars, libs, viewers, vlast>>
  /\ assets' = LoadOnce(assets, LeafletJs).assets
  /\ mounts' = [mounts EXCEPT ![m].pc = "leafletJs",
                              ![m].wait = LoadOnce(assets, LeafletJs).wait]

\* after await loadScriptOnce(leaflet.js): reject on its error, else go on
\* to the test of L.Control.Draw
AfterLeafletJs(m) ==
  /\ mounts[m].pc = "leafletJs"
  /\ Settled(mounts[m].wait)
  /\ UNCHANGED <<editorVars, libs, viewers, vlast>>
  /\ IF mounts[m].wait # NoWait /\ assets[mounts[m].wait] = "failed"
     THEN /\ mounts' = [mounts EXCEPT ![m].pc = "end", ![m].out = "loadFailed"]
          /\ UNCHANGED assets
     ELSE CheckDraw(m, mounts)

\* after await loadCSSOnce(leaflet.draw.css): loadScriptOnce(leaflet.draw.js)
AfterDrawCss(m) ==
  /\ mounts[m].pc = "drawCss"
  /\ Settled(mounts[m].wait)
  /\ UNCHANGED <<editorVars, libs, viewers, vlast>>
  /\ assets' = LoadOnce(assets, DrawJs).assets
  /\ mounts' = [mounts EXCEPT ![m].pc = "drawJs",
                              ![m].wait = LoadOnce(assets, DrawJs).wait]

\* after await loadScriptOnce(leaflet.draw.js): reject on its error, else resolve
AfterDrawJs(m) ==
  /\ mounts[m].pc = "drawJs"
  /\ Settled(mounts[m].wait)
  /\ UNCHANGED <<editorVars, libs, assets, viewers, vlast>>
  /\ IF mounts[m].wait # NoWait /\ assets[mounts[m].wait] = "failed"
     THEN mounts' = [mounts EXCEPT ![m].pc = "end", ![m].out = "loadFailed"]
     ELSE mounts' = [mounts EXCEPT ![m].pc = "ready", ![m].wait = NoWait]

\* mount after await ensureLeafletAndDraw(): the widget is built in the
\* container, then L.map and new L.Control.Draw throw when the global they
\* name is not there
MountBuild(m) ==
  /\ mounts[m].pc = "ready"
  /\ UNCHANGED <<editorVars, libs, assets, viewers, vlast>>
  /\ mounts' = [mounts EXCEPT ![m].pc = "end",
                              ![m].built = TRUE,
                              ![m].out = IF libs.L /\ libs.Draw THEN "ok" ELSE "typeError"]

----------------------------------------------------------------------------
(* The viewer (zw-render.js) *)

\* what cfg.data can be at mount, NoPayload for a cfg without data
MountData == {NoPayload, POther, Array(<<ZFull>>)}

\* what setData can be called with
ViewPayloads == Payloads \cup PayloadsMalformed

\* a call of ZoneMapViewer.mount that has not been made: cfg.data, whether
\* cfg.jsonUrl is given, the calls of fetch it made, the status of the
\* response it got, the status in the message of its error, and the layers
\* of its feature group
IdleViewer ==
  [pc |-> "idle", wait |-> NoWait, out |-> "", data |-> NoPayload, url |-> FALSE,
   fetches |-> 0, got |-> 0, status |-> 0, shown |-> <<>>]
NoSetData == [op |-> "none", m |-> 0, input |-> NoPayload, res |-> ""]

\* the cfg of a mount: data alone, a jsonUrl alone, both, or neither
MountCfgs ==
  {[data |-> d, url |-> FALSE] : d \in MountData}
    \cup {[data |-> NoPayload, url |-> TRUE], [data |-> Array(<<ZFull>>), url |-> TRUE]}

\* what fetch(url) can end with: net for a rejected fetch, else the status of
\* the response, whether its body is JSON, and the body
Response(net, status, parses, body) ==
  [net |-> net, status |-> status, parses |-> parses, body |-> body]
Responses ==
  {Response(TRUE, 0, FALSE, NoPayload),
   Response(FALSE, 200, FALSE, NoPayload),
   Response(FALSE, 200, TRUE, POther),
   Response(FALSE, 200, TRUE, Envelope(<<ZFull, ZBare, ZNoGeo>>)),
   Response(FALSE, 404, TRUE, Array(<<ZFull>>)),
   Response(FALSE, 500, FALSE, NoPayload)}

\* res.ok
ResOk(status) == status >= 200 /\ status <= 299

\* a fetchJson that does not look at res.ok
fetchJsonUnchecked(r) ==
  IF r.net THEN [ok |-> FALSE, err |-> "network", status |-> 0, json |-> NoPayload]
  ELSE IF ~r.parses THEN [ok |-> FALSE, err |-> "json", status |-> 0, json |-> NoPayload]
  ELSE [ok |-> TRUE, err |-> "", status |-> 0, json |-> r.body]

\* fetchJson(url) for the response r: the JSON of the body, or the error it
\* throws, with the status its message holds
fetchJson(r) ==
  IF r.net THEN [ok |-> FALSE, err |-> "network", status |-> 0, json |-> NoPayload]
  ELSE IF ~ResOk(r.status)
  THEN [ok |-> FALSE, err |-> "http", status |-> r.status, json |-> NoPayload]
  ELSE IF ~r.parses THEN [ok |-> FALSE, err |-> "json", status |-> 0, json |-> NoPayload]
  ELSE [ok |-> TRUE, err |-> "", status |-> 0, json |-> r.body]

\* a normalizeZones that keeps the first element only
normalizeZonesFirst(payload) ==
  IF payload.kind \in {"array", "envelope"} /\ Len(payload.zones) >= 1
  THEN <<[id |-> payload.zones[1].id, createdAt |-> payload.zones[1].createdAt,
          geojson |-> payload.zones[1].geojson]>>
  ELSE <<>>

\* normalizeZones(payload): the array, payload.zones, or []; each element cut
\* down to id, createdAt and geojson
normalizeZones(payload) ==
  LET zs == IF payload.kind \in {"array", "envelope"} THEN payload.zones ELSE <<>>
  IN [i \in 1..Len(zs) |->
        [id |-> zs[i].id, createdAt |-> zs[i].createdAt, geojson |-> zs[i].geojson]]

\* the forEach of setData: an element without geojson is skipped, and so is
\* one for which L.geoJSON throws
RECURSIVE AddLayers(_, _)
AddLayers(zs, fg) ==
  IF zs = <<>> THEN fg
  ELSE IF Head(zs).geojson = "none" \/ Throws(Head(zs).geojson)
       THEN AddLayers(Tail(zs), fg)
       ELSE AddLayers(Tail(zs), Append(fg, Head(zs).geojson))

\* setData(payload): fg.clearLayers(), then one layer per drawable zone
setData(payload) == AddLayers(normalizeZones(payload), <<>>)

\* ZoneMapViewer.mount(cfg) up to the first await of ensureLeaflet; the calls
\* are numbered in the order they are made
ViewerStart(m, data, url) ==
  /\ viewers[m].pc = "idle"
  /\ \A k \in MountIds : k < m => viewers[k].pc # "idle"
  /\ UNCHANGED <<editorVars, libs, mounts, vlast>>
  /\ IF libs.L
     THEN /\ viewers' = [viewers EXCEPT ![m].pc = "ready", ![m].data = data,
                                        ![m].url = url]
          /\ UNCHANGED assets
     ELSE /\ assets' = LoadOnce(assets, ViewerCss).assets
          /\ viewers' = [viewers EXCEPT ![m].pc = "css", ![m].data = data,
                                        ![m].url = url,
                                        ![m].wait = LoadOnce(assets, ViewerCss).wait]

\* ensureLeaflet after await loadCSSOnce: loadScriptOnce
ViewerAfterCss(m) ==
  /\ viewers[m].pc = "css"
  /\ Settled(viewers[m].wait)
  /\ UNCHANGED <<editorVars, libs, mounts, vlast>>
  /\ assets' = LoadOnce(assets, ViewerJs).assets
  /\ viewers' = [viewers EXCEPT ![m].pc = "js",
                                ![m].wait = LoadOnce(assets, ViewerJs).wait]

\* ensureLeaflet after await loadScriptOnce: the error of the script, or
\* 'Leaflet failed to load' when window.L is not there
ViewerAfterJs(m) ==
  /\ viewers[m].pc = "js"
  /\ Settled(viewers[m].wait)
  /\ UNCHANGED <<editorVars, libs, assets, mounts, vlast>>
  /\ viewers' =
       IF viewers[m].wait # NoWait /\ assets[viewers[m].wait] = "failed"
       THEN [viewers EXCEPT ![m].pc = "end", ![m].out = "loadFailed"]
       ELSE IF ~libs.L
       THEN [viewers EXCEPT ![m].pc = "end", ![m].out = "notLoaded"]
       ELSE [viewers EXCEPT ![m].pc = "ready", ![m].wait = NoWait]

\* mount after await ensureLeaflet(): the map, the feature group, and
\* setData(cfg.data) when the cfg has data; without data and with a jsonUrl
\* the call of fetch, up to the await in fetchJson
ViewerBuild(m) ==
  /\ viewers[m].pc = "ready"
  /\ UNCHANGED <<editorVars, libs, assets, mounts, vlast>>
  /\ viewers' =
       IF viewers[m].data # NoPayload
       THEN [viewers EXCEPT ![m].pc = "mounted", ![m].out = "ok",
                            ![m].shown = setData(viewers[m].data)]
       ELSE IF viewers[m].url
       THEN [viewers EXCEPT ![m].pc = "fetch",
                            ![m].fetches = viewers[m].fetches + 1]
       ELSE [viewers EXCEPT ![m].pc = "mounted", ![m].out = "ok"]

\* mount after await fetchJson(cfg.jsonUrl), for the response r: setData(json),
\* or the rejection of the mount with the error of fetchJson
ViewerFetched(m, r) ==
  /\ viewers[m].pc = "fetch"
  /\ UNCHANGED <<editorVars, libs, assets, mounts, vlast>>
  /\ \E f \in {fetchJson(r)} :
       viewers' =
         IF f.ok
         THEN [viewers EXCEPT ![m].pc = "mounted", ![m].out = "ok",
                              ![m].got = r.status,
                              ![m].shown = setData(f.json)]
         ELSE [viewers EXCEPT ![m].pc = "end", ![m].out = f.err,
                              ![m].got = r.status,
                              ![m].status = f.status]

\* the setData of the API a mount returned
ViewerSetData(m, p) ==
  /\ viewers[m].pc = "mounted"
  /\ UNCHANGED <<editorVars, libs, assets, mounts>>
  /\ viewers' = [viewers EXCEPT ![m].shown = setData(p)]
  /\ vlast' = [op |-> "setData", m |-> m, input |-> p, res |-> "ok"]

\* the document of a mounted editor: its assets are loaded, the mount call
\* has returned, no viewer is on the page
PageOfEditor ==
  /\ assets = [a \in AssetIds |-> IF a \in EditorAssets THEN "loaded" ELSE "absent"]
  /\ libs = [L |-> TRUE, Draw |-> TRUE]
  /\ mounts = [m \in MountIds |->
                 IF m = 1 THEN [IdleMount EXCEPT !.pc = "end", !.out = "ok", !.built = TRUE]
                 ELSE IdleMount]
  /\ viewers = [m \in MountIds |-> IdleViewer]
  /\ vlast = NoSetData

\* a document in which no script of the widget has run
EmptyPage ==
  /\ assets = [a \in AssetIds |-> "absent"]
  /\ libs = [L |-> FALSE, Draw |-> FALSE]
  /\ mounts = [m \in MountIds |-> IdleMount]
  /\ viewers = [m \in MountIds |-> IdleViewer]
  /\ vlast = NoSetData

----------------------------------------------------------------------------
(* The file reads in flight *)

\* the file reads in flight, oldest selection first: not told apart, or told
\* apart, n of them being of a file selected before one whose read completed
Untold == [told |-> FALSE, n |-> 0]
Told == [told |-> TRUE, n |-> 0]

\* the places in that order a completing read can have
Places(o, p) == IF o.told THEN 1..p ELSE {1}

\* the k-th oldest read in flight completes
Overtakes(o, k) ==
  IF ~o.told THEN o
  ELSE IF k <= o.n THEN [o EXCEPT !.n = o.n - 1]
  ELSE [o EXCEPT !.n = k - 1]

-----------------------------------------------------------------------------
(* The host and what getZones gave it *)

\* a host that drops what getZones returns, and one that holds on to it;
\* shared tells whether what it holds is the array state.zones itself
Discards == [keeps |-> FALSE, shared |-> FALSE, val |-> <<>>]
Keeps == [keeps |-> TRUE, shared |-> FALSE, val |-> <<>>]

\* a getZones that returns state.zones
getZonesShared(zs) == [shared |-> TRUE, val |-> zs]

\* getZones: JSON.parse(JSON.stringify(state.zones)), an array of new objects
getZones(zs) == [shared |-> FALSE, val |-> [i \in 1..Len(zs) |-> ToJson(zs[i])]]

\* what the host holds after a handler changed the array state.zones in
\* place (push, splice) to zs
InPlace(h, zs) == IF h.shared THEN [h EXCEPT !.val = zs] ELSE h

\* what the host holds after a handler assigned a new array to state.zones
Reassigned(h) == [h EXCEPT !.shared = FALSE]

----------------------------------------------------------------------------
(* Mount *)

EmptyDom ==
  [drawControlOn |-> FALSE, mainLayers |-> <<>>, grid |-> <<>>,
   drawHidden |-> FALSE, hint |-> "", actionsBar |-> "none"]

\* mount: options, state, map, and the first applyMode
Mounted ==
  /\ limit \in 0..MaxLimit
  /\ mode \in ModeOptions
  /\ zones = <<>>
  /\ now = 1
  /\ mapZoom = InitZoom
  /\ mapCenter = FallbackCenter
  /\ \E d \in {applyMode(EmptyDom, <<>>, mode, limit).dom} :
       /\ drawControlOn = d.drawControlOn
       /\ mainLayers = d.mainLayers
       /\ grid = d.grid
       /\ drawHidden = d.drawHidden
       /\ hint = d.hint
       /\ actionsBar = d.actionsBar
  /\ pending = 0
  /\ overtaken = Untold
  /\ last = Last("mount", "ok")
  /\ PageOfEditor

Init == src = Payloads /\ held = Discards /\ Mounted

InitMalformed == src = PayloadsMalformed /\ held = Discards /\ Mounted

InitDuplicate == src = PayloadsDuplicate /\ held = Discards /\ Mounted

InitDecode == src = PayloadsDecode /\ held = Discards /\ Mounted

\* an editor whose host holds on to what getZones returns
InitHost == src = PayloadsHost /\ held = Keeps /\ Mounted

\* an editor mounted in edit mode in which the user has selected one file
\* and then another, both still being read
InitOverlap ==
  /\ src = PayloadsOverlap
  /\ held = Discards
  /\ limit \in 1..MaxLimit
  /\ mode = "edit"
  /\ zones = <<>>
  /\ now = 1
  /\ mapZoom = InitZoom
  /\ mapCenter = FallbackCenter
  /\ \E d \in {applyMode(EmptyDom, <<>>, "edit", limit).dom} :
       /\ drawControlOn = d.drawControlOn
       /\ mainLayers = d.mainLayers
       /\ grid = d.grid
       /\ drawHidden = d.drawHidden
       /\ hint = d.hint
       /\ actionsBar = d.actionsBar
  /\ pending = MaxPending + 1
  /\ overtaken = Told
  /\ last = Last("importSelect", "ok")
  /\ PageOfEditor

\* the editor variables of a page on which no editor has been mounted yet
NoEditor ==
  /\ src = {}
  /\ limit = 0
  /\ mode = "edit"
  /\ zones = <<>>
  /\ now = 1
  /\ mapZoom = InitZoom
  /\ mapCenter = FallbackCenter
  /\ drawControlOn = EmptyDom.drawControlOn
  /\ mainLayers = EmptyDom.mainLayers
  /\ grid = EmptyDom.grid
  /\ drawHidden = EmptyDom.drawHidden
  /\ hint = EmptyDom.hint
  /\ actionsBar = EmptyDom.actionsBar
  /\ pending = 0
  /\ overtaken = Untold
  /\ held = Discards
  /\ last = Last("none", "")

InitLoad == NoEditor /\ EmptyPage

InitView == NoEditor /\ EmptyPage

----------------------------------------------------------------------------
(* Handlers *)

\* map.on(L.Draw.Event.CREATED): a shape g was drawn; r is Math.random()
Create(g, r) ==
  /\ UNCHANGED <<pageVars, overtaken, src, limit, mode, pending>>
  /\ IF ~Permitted(mode)
     THEN /\ UNCHANGED <<zones, now, mapVars, domVars, held>>
          /\ last' = Last("create", "denied")
     ELSE IF Len(zones) >= limit
     THEN /\ SetDom(applyDrawAvailability(Dom, zones, mode, limit))
          /\ UNCHANGED <<zones, now, mapVars, held>>
          /\ last' = Last("create", "limit")
     ELSE LET z == [id |-> MakeId(r, now),
                    createdAt |-> now,
                    geojson |-> g,
                    center |-> IF safeBoundsFromGeo(g) THEN BoundsCenter(g) ELSE mapCenter,
                    zoom |-> Min(mapZoom, MaxCreatedZoom)]
              zs == Append(zones, z)
          IN \E am \in {applyMode(Dom, zs, mode, limit)} :
             /\ now <= MaxClock
             /\ zones' = zs
             /\ held' = InPlace(held, zs)
             /\ now' = now + 1
             /\ SetDom(am.dom)
             /\ IF am.threw THEN UNCHANGED mapVars ELSE focusZone(z)
             /\ last' = Ev("create", "ok", am.threw, NoPayload, NoId)

\* gridEl click on the delete button of card k
Delete(k) ==
  /\ k \in 1..Len(grid)
  /\ grid[k].del
  /\ UNCHANGED <<pageVars, overtaken, src, limit, mode, pending, now, mapVars>>
  /\ IF ~Permitted(mode)
     THEN /\ UNCHANGED <<zones, domVars, held>>
          /\ last' = Ev("delete", "denied", FALSE, NoPayload, grid[k].id)
     ELSE LET idx == FindIndex(zones, grid[k].id)
              zs == IF idx >= 1 THEN Splice(zones, idx) ELSE zones
          IN \E am \in {applyMode(Dom, zs, mode, limit)} :
             /\ zones' = zs
             /\ held' = InPlace(held, zs)
             /\ SetDom(am.dom)
             /\ last' = Ev("delete", IF idx >= 1 THEN "ok" ELSE "noop",
                           am.threw, NoPayload, grid[k].id)

\* gridEl click on a card (not on its delete button), and api.focus(id)
Focus(id) ==
  /\ UNCHANGED <<pageVars, overtaken, held, src, limit, mode, zones, now, pending, domVars>>
  /\ IF FindIndex(zones, id) = 0
     THEN /\ UNCHANGED mapVars
          /\ last' = Ev("focus", "noop", FALSE, NoPayload, id)
     ELSE /\ focusZone(zones[FindIndex(zones, id)])
          /\ last' = Ev("focus", "ok", FALSE, NoPayload, id)

\* api.getZones(): JSON.parse(JSON.stringify(state.zones))
GetZones ==
  /\ UNCHANGED <<pageVars, overtaken, src, limit, mode, zones, now, pending, mapVars, domVars>>
  /\ \E c \in {getZones(zones)} :
       /\ held' = IF held.keeps THEN [held EXCEPT !.shared = c.shared, !.val = c.val]
                  ELSE held
       /\ last' = Ev("getZones", "ok", FALSE, Array(c.val), NoId)

\* the host removes the last element of the array it holds (pop)
HostPop ==
  /\ held.keeps
  /\ Len(held.val) >= 1
  /\ UNCHANGED <<pageVars, overtaken, src, limit, mode, now, pending, mapVars, domVars>>
  /\ held' = [held EXCEPT !.val = SubSeq(held.val, 1, Len(held.val) - 1)]
  /\ zones' = IF held.shared THEN SubSeq(zones, 1, Len(zones) - 1) ELSE zones
  /\ last' = Last("hostPop", "ok")

\* an export button that works in every mode
ExportAnyMode ==
  /\ UNCHANGED <<pageVars, overtaken, held, src, limit, mode, zones, now, pending, mapVars, domVars>>
  /\ last' = Ev("export", "ok", FALSE, ExportPayload(zones), NoId)

\* btnExport click
Export ==
  /\ UNCHANGED <<pageVars, overtaken, held, src, limit, mode, zones, now, pending, mapVars, domVars>>
  /\ IF ~Permitted(mode)
     THEN last' = Last("export", "denied")
     ELSE last' = Ev("export", "ok", FALSE, ExportPayload(zones), NoId)

\* btnClearAll click
ClearAll ==
  /\ UNCHANGED <<pageVars, overtaken, src, limit, mode, now, pending, mapVars>>
  /\ IF ~Permitted(mode)
     THEN /\ UNCHANGED <<zones, domVars, held>>
          /\ last' = Last("clear", "denied")
     ELSE /\ zones' = <<>>
          /\ held' = Reassigned(held)
          /\ SetDom(applyMode(Dom, <<>>, mode, limit).dom)
          /\ last' = Last("clear", "ok")

\* a toggle button that also empties the zone set
ToggleModeClearing ==
  /\ UNCHANGED <<pageVars, overtaken, held, src, limit, now, pending, mapVars>>
  /\ mode' = IF mode = "edit" THEN "view" ELSE "edit"
  /\ zones' = <<>>
  /\ SetDom(applyMode(Dom, <<>>, mode', limit).dom)
  /\ last' = Ev("toggle", "ok", FALSE, NoPayload, NoId)

\* btnToggleMode click
ToggleMode ==
  /\ UNCHANGED <<pageVars, overtaken, held, src, limit, zones, now, pending, mapVars>>
  /\ mode' = IF mode = "edit" THEN "view" ELSE "edit"
  /\ \E am \in {applyMode(Dom, zones, mode', limit)} :
       /\ SetDom(am.dom)
       /\ last' = Ev("toggle", "ok", am.threw, NoPayload, NoId)

\* api.setMode(newMode)
SetMode(m) ==
  /\ UNCHANGED <<pageVars, overtaken, held, src, limit, zones, now, pending, mapVars>>
  /\ mode' = IF m = "view" THEN "view" ELSE "edit"
  /\ \E am \in {applyMode(Dom, zones, mode', limit)} :
       /\ SetDom(am.dom)
       /\ last' = Ev("setMode", "ok", am.threw, NoPayload, NoId)

\* the body of setZones: normalizeImport, the assignment, applyMode; rs are
\* the values of Math.random()
ReplaceZones(p) ==
  /\ UNCHANGED <<pageVars, overtaken, src, limit, mode, pending, mapVars>>
  /\ \E rs \in Draws(DrawCount(p, limit)) :
       \E r \in {normalizeImport(p, limit, now, rs)} :
       \E am \in {applyMode(Dom, r.zones, mode, limit)} :
          IF ~r.ok
          THEN /\ UNCHANGED <<zones, now, domVars, held>>
               /\ last' = Ev("setZones", r.err, FALSE, p, NoId)
          ELSE /\ ReadsClock(p, limit) => now <= MaxClock
               /\ zones' = r.zones
               /\ held' = Reassigned(held)
               /\ now' = IF ReadsClock(p, limit) THEN now + 1 ELSE now
               /\ SetDom(am.dom)
               /\ last' = Ev("setZones", "ok", am.threw, p, NoId)

\* a setZones behind the guard of the user interface
SetZonesGuarded(p) ==
  IF Permitted(mode)
  THEN ReplaceZones(p)
  ELSE /\ UNCHANGED <<pageVars, overtaken, held, src, limit, mode, zones, now, pending, mapVars, domVars>>
       /\ last' = Ev("setZones", "denied", FALSE, p, NoId)

\* api.setZones(zonesPayload)
SetZones(p) == ReplaceZones(p)

\* fileImport change, up to the await: the user selected a file.  The
\* handler sees the text of the file only after the await, so the file in
\* flight is a read in progress and its text is drawn when it arrives.
ImportSelect ==
  /\ UNCHANGED <<pageVars, overtaken, held, src, limit, mode, zones, now, mapVars, domVars>>
  /\ IF ~Permitted(mode)
     THEN /\ UNCHANGED pending
          /\ last' = Last("importSelect", "denied")
     ELSE /\ pending < MaxPending
          /\ pending' = pending + 1
          /\ last' = Last("importSelect", "ok")

\* fileImport change with no file in the selection
ImportNoFile ==
  /\ UNCHANGED <<pageVars, overtaken, held, src, limit, mode, zones, now, mapVars, domVars, pending>>
  /\ last' = Last("importSelect", IF ~Permitted(mode) THEN "denied" ELSE "nofile")

\* fileImport change, after the await: the text f of a file in flight has
\* arrived, that of the k-th oldest selection still in flight (file.text()
\* of one file can settle before that of a file selected earlier); rs are
\* the values of Math.random()
ImportComplete(f, k) ==
  /\ pending >= 1
  /\ k \in Places(overtaken, pending)
  /\ UNCHANGED <<pageVars, src, limit, mode>>
  /\ pending' = pending - 1
  /\ overtaken' = Overtakes(overtaken, k)
  /\ \E rs \in Draws(DrawCount(f.json, limit)) :
       \E r \in {normalizeImport(f.json, limit, now, rs)} :
       \E am \in {applyMode(Dom, r.zones, mode, limit)} :
          IF ~f.parse \/ ~r.ok
          THEN /\ UNCHANGED <<zones, now, mapVars, held>>
               /\ SetDom([Dom EXCEPT !.hint = "importErr"])
               /\ last' = Ev("import", IF ~f.parse THEN "parse" ELSE r.err,
                             FALSE, f.json, NoId)
          ELSE /\ ReadsClock(f.json, limit) => now <= MaxClock
               /\ zones' = r.zones
               /\ held' = Reassigned(held)
               /\ now' = IF ReadsClock(f.json, limit) THEN now + 1 ELSE now
               /\ last' = Ev("import", "ok", am.threw, f.json, NoId)
               /\ IF am.threw
                  THEN /\ SetDom([am.dom EXCEPT !.hint = "importErr"])
                       /\ UNCHANGED mapVars
                  ELSE /\ SetDom([am.dom EXCEPT !.hint = "importOk"])
                       /\ IF Len(r.zones) >= 1
                          THEN focusZone(r.zones[1])
                          ELSE UNCHANGED mapVars

Next ==
  \/ \E g \in DrawGeo, rs \in Draws(1) : Create(g, rs[1])
  \/ \E k \in 1..Len(grid) : Delete(k)
  \/ \E id \in {ExtA, ExtB} \cup {grid[k].id : k \in 1..Len(grid)} : Focus(id)
  \/ GetZones
  \/ Export
  \/ ClearAll
  \/ ToggleMode
  \/ \E m \in ModeOptions : SetMode(m)
  \/ \E p \in src : SetZones(p)
  \/ ImportSelect
  \/ ImportNoFile
  \/ \E f \in FilesOf(src), k \in Places(overtaken, pending) : ImportComplete(f, k)

\* an editor whose payloads and files hold geometries Leaflet can draw
Spec == Init /\ [][Next]_vars

\* an editor that is also given a geometry L.geoJSON rejects
SpecMalformed == InitMalformed /\ [][Next]_vars

\* an editor that is given the same id twice in one payload
SpecDuplicate == InitDuplicate /\ [][Next]_vars

\* an editor with two file reads in flight
SpecOverlap == InitOverlap /\ [][Next]_vars

\* the handlers that change state.zones or the mode that permits the change,
\* getZones, and a host that changes the arrays getZones gave it
NextHost ==
  \/ \E g \in DrawGeo, rs \in Draws(1) : Create(g, rs[1])
  \/ \E k \in 1..Len(grid) : Delete(k)
  \/ ClearAll
  \/ ToggleMode
  \/ \E m \in ModeOptions : SetMode(m)
  \/ \E p \in src : SetZones(p)
  \/ ImportSelect
  \/ \E f \in FilesOf(src), k \in Places(overtaken, pending) : ImportComplete(f, k)
  \/ GetZones
  \/ HostPop

SpecHost == InitHost /\ [][NextHost]_vars

\* an editor that is given elements in every combination of fields
SpecDecode == InitDecode /\ [][Next]_vars

\* the calls of ZoneWidget.mount on one page, and the events of the assets
NextLoad ==
  \/ \E m \in MountIds : MountStart(m)
  \/ \E m \in MountIds : AfterLeafletCss(m)
  \/ \E m \in MountIds : AfterLeafletJs(m)
  \/ \E m \in MountIds : AfterDrawCss(m)
  \/ \E m \in MountIds : AfterDrawJs(m)
  \/ \E m \in MountIds : MountBuild(m)
  \/ \E a \in AssetIds : AssetLoaded(a)
  \/ \E a \in AssetIds : AssetFailed(a)

SpecLoad == InitLoad /\ [][NextLoad]_vars

\* the viewers of one page, and the events of the assets
NextView ==
  \/ \E m \in MountIds, c \in MountCfgs : ViewerStart(m, c.data, c.url)
  \/ \E m \in MountIds : ViewerAfterCss(m)
  \/ \E m \in MountIds : ViewerAfterJs(m)
  \/ \E m \in MountIds : ViewerBuild(m)
  \/ \E m \in MountIds, r \in Responses : ViewerFetched(m, r)
  \/ \E m \in MountIds, p \in ViewPayloads : ViewerSetData(m, p)
  \/ \E a \in AssetIds : AssetLoaded(a)
  \/ \E a \in AssetIds : AssetFailed(a)

SpecView == InitView /\ [][NextView]_vars

----------------------------------------------------------------------------
(* Properties *)

ReplaceOps == {"setZones", "import"}
UiMutations == {"create", "delete", "importSelect", "clear"}

\* a sequence without its i-th element
RemoveAt(s, i) == SubSeq(s, 1, i - 1) \o SubSeq(s, i + 1, Len(s))

\* a payload that is an array (or holds one) of elements that all have a geometry
ValidInput(p) ==
  /\ p.kind \in {"array", "envelope"}
  /\ \A i \in 1..Len(p.zones) : p.zones[i].geojson # "none"

\* the stored zone z is the element e: its geometry, and every field e gives
Installs(z, e) ==
  /\ z.geojson = e.geojson
  /\ e.id # NoId => z.id = e.id
  /\ e.createdAt # 0 => z.createdAt = e.createdAt
  /\ e.center.arr => z.center = e.center.v
  /\ e.zoom # 0 => z.zoom = e.zoom

\* C1: in every reachable state the zone set holds at most limit zones.
C1_SizeAtMostLimit == Len(zones) <= limit

\* an import of more than limit elements has filled the zone set to the limit
C1_Witness ==
  /\ last.op = "import"
  /\ Len(last.input.zones) > limit
  /\ limit >= 1
  /\ Len(zones) = limit

\* C2: a draw-completion, a delete click, a file selection or a clear-all
\* click made while the mode is view leaves the zone set as it was (and starts
\* no file read that could change it later).
C2_ViewModeNoMutation ==
  [][(mode = "view" /\ last'.op \in UiMutations)
       => (zones' = zones /\ pending' = pending)]_vars

\* a delete click was refused in view mode on a zone set that holds zones
C2_Witness ==
  /\ mode = "view"
  /\ last.op = "delete"
  /\ last.res = "denied"
  /\ Len(zones) >= 1

C4_CreateAtLimitRefused ==
  [][(last'.op = "create" /\ mode = "edit" /\ Len(zones) >= limit)
       => (zones' = zones /\ drawHidden' /\ hint' = "limit")]_vars

\* a draw-completion was refused on a full zone set
C4_Witness ==
  /\ last.op = "create"
  /\ last.res = "limit"
  /\ limit >= 1
  /\ Len(zones) = limit
  /\ hint = "limit"

\* C5: a draw-completion in edit mode on fewer than limit zones appends one
\* zone, whose id differs from every id in the set, and keeps the zones that
\* were there, in their order.
C5_CreateAppendsFresh ==
  [][(last'.op = "create" /\ mode = "edit" /\ Len(zones) < limit)
       => /\ Len(zones') = Len(zones) + 1
          /\ SubSeq(zones', 1, Len(zones)) = zones
          /\ \A i \in 1..Len(zones) : zones[i].id # zones'[Len(zones')].id]_vars

\* the end of the scenario with limit 2: A was drawn first and is gone, the
\* set is [B, C] with C drawn last
C5_Witness ==
  /\ limit = 2
  /\ last.op = "create"
  /\ last.res = "ok"
  /\ Len(zones) = 2
  /\ zones[1].id = MakeId(0, 2)
  /\ zones[2].id = MakeId(0, 3)

\* C6: in edit mode a delete click on an id that is not in the zone set
\* leaves the set as it was; on an id that is in the set it removes one entry,
\* which has that id, and keeps the others in their order.
C6_DeleteRemovesExactlyOne ==
  [][(last'.op = "delete" /\ mode = "edit")
       => IF \A i \in 1..Len(zones) : zones[i].id # last'.id
          THEN zones' = zones
          ELSE \E i \in 1..Len(zones) :
                 /\ zones[i].id = last'.id
                 /\ zones' = RemoveAt(zones, i)]_vars

\* a delete click removed one zone of two
C6_Witness ==
  /\ last.op = "delete"
  /\ last.res = "ok"
  /\ Len(zones) = 1
  /\ zones[1].id # last.id

\* C7: setZones or a file import with a valid input of n zones installs the
\* first min(n, limit) elements of the input, in input order, in place of
\* the zones that were there; an empty array gives an empty set and no error.
C7_ReplaceInstallsPrefix ==
  (last.op \in ReplaceOps /\ ValidInput(last.input))
    => /\ Len(zones) = Min(Len(last.input.zones), limit)
       /\ \A i \in 1..Len(zones) : Installs(zones[i], last.input.zones[i])
       /\ Len(last.input.zones) = 0
            => (last.res = "ok" /\ ~last.threw /\ hint # "importErr")

\* a valid input longer than limit was cut to limit zones
C7_Witness ==
  /\ last.op = "setZones"
  /\ last.res = "ok"
  /\ ValidInput(last.input)
  /\ Len(last.input.zones) > limit
  /\ limit >= 1
  /\ Len(zones) = limit

\* C8 as claimed: an input with an element that has no geometry, wherever
\* the element is, is rejected and the zone set stays as it was.
C8_MissingGeometryRejectsAll ==
  [][(last'.op \in ReplaceOps
        /\ \E i \in 1..Len(last'.input.zones) : last'.input.zones[i].geojson = "none")
       => (last'.res = "nogeo" /\ zones' = zones)]_vars

\* C9 as claimed: a file import that ends with the error hint (the text does
\* not parse, the payload has no array, an element has no geometry, or
\* anything throws while it is processed) leaves the zone set as it was.
C9_FailedImportKeepsZones ==
  [][(last'.op = "import" /\ hint' = "importErr") => zones' = zones]_vars

\* C10 as claimed: importing what Export wrote, with the same limit, gives
\* the zone set that was exported: ids, geometries, createdAt, centers and
\* zooms, in order.
C10_ExportImportRoundTrip ==
  (last.op = "export" /\ last.res = "ok")
    => \A rs \in Draws(DrawCount(last.input, limit)) :
         /\ normalizeImport(last.input, limit, now, rs).ok
         /\ normalizeImport(last.input, limit, now, rs).zones = zones

\* a step that changed the zone set or the mode and whose handler ran to its
\* end without an exception from a render
CompletedChange == (zones' # zones \/ mode' # mode) /\ ~last'.threw

ModeOps == {"toggle", "setMode"}
ReadOps == {"getZones", "focus", "export"}

\* the drawing tools are on the map and not hidden
ToolsShown == drawControlOn /\ ~drawHidden

\* C11 as claimed: the zones of the zone set have pairwise distinct ids.
C11_IdsPairwiseDistinct ==
  \A i, j \in 1..Len(zones) : i # j => zones[i].id # zones[j].id

\* C12 as claimed: the mode is edit or view, whatever the initial mode option
\* and whatever setMode was given.
C12_ModeIsEditOrView == mode \in {"edit", "view"}

\* C13: after a completed change of the zone set or of the mode the drawing
\* tools are shown iff the mode is edit and the zone set is below the limit.
C13_ToolsShownIffEditBelowLimit ==
  [][CompletedChange
       => (ToolsShown' <=> (mode' = "edit" /\ Len(zones') < limit))]_vars

\* a delete at the limit in edit mode brought the tools back
C13_Witness ==
  /\ last.op = "delete"
  /\ last.res = "ok"
  /\ ~last.threw
  /\ mode = "edit"
  /\ Len(zones) + 1 = limit
  /\ ToolsShown

\* C14 as claimed: after a completed change of the zone set or of the mode
\* the hint is the limit-reached, the edit-available or the view-mode hint,
\* as the mode and the size say.
C14_HintIsOneOfThree ==
  [][CompletedChange
       => /\ (mode' = "edit" /\ Len(zones') >= limit) => hint' = "limit"
          /\ (mode' = "edit" /\ Len(zones') < limit) => hint' = "edit"
          /\ mode' = "view" => hint' = "view"]_vars

\* C14 as amended: that holds for every completed change but a file import;
\* after a file import that succeeded the hint is the import report.
C14_HintOneOfThreeOrImportReport ==
  [][CompletedChange
       => IF last'.op = "import"
          THEN hint' = "importOk"
          ELSE /\ (mode' = "edit" /\ Len(zones') >= limit) => hint' = "limit"
               /\ (mode' = "edit" /\ Len(zones') < limit) => hint' = "edit"
               /\ mode' = "view" => hint' = "view"]_vars

\* a file import filled the zone set to the limit and the hint reports the import
C14_Witness ==
  /\ last.op = "import"
  /\ last.res = "ok"
  /\ ~last.threw
  /\ mode = "edit"
  /\ limit >= 1
  /\ Len(zones) = limit
  /\ hint = "importOk"

\* C15: after a completed change of the zone set or of the mode the main map
\* holds one layer per zone and the grid one card per zone, in the order of
\* the zone set; a mode change leaves the zone set alone and every other
\* handler leaves the mode alone.
C15_RenderIsProjection ==
  [][/\ CompletedChange
          => /\ mainLayers' = [i \in 1..Len(zones') |-> zones'[i].geojson]
             /\ Len(grid') = Len(zones')
             /\ \A i \in 1..Len(zones') : grid'[i].id = zones'[i].id
     /\ last'.op \in ModeOps => zones' = zones
     /\ last'.op \notin ModeOps => mode' = mode]_vars

\* a second zone was drawn and the map and the grid show both
C15_Witness ==
  /\ last.op = "create"
  /\ last.res = "ok"
  /\ ~last.threw
  /\ Len(zones) = 2
  /\ Len(mainLayers) = 2
  /\ Len(grid) = 2
  /\ grid[2].id = zones[2].id

\* C18 as claimed: getZones, focus and export are carried out in either mode.
C18_ReadOnlyInEitherMode ==
  last.op \in ReadOps => last.res # "denied"

\* C18 as amended: getZones returns the zone set and focus moves the view in
\* every mode; export is carried out in edit mode only.
C18_ReadsExceptExportInEitherMode ==
  /\ last.op = "getZones"
       => /\ last.res = "ok"
          /\ Len(last.input.zones) = Len(zones)
          /\ \A i \in 1..Len(zones) : last.input.zones[i].id = zones[i].id
  /\ last.op = "focus"
       => (last.res = "ok" <=> \E i \in 1..Len(zones) : zones[i].id = last.id)
  /\ last.op = "export" => (last.res = "ok" <=> mode = "edit")

\* focus moved the view in view mode
C18_Witness ==
  /\ mode = "view"
  /\ last.op = "focus"
  /\ last.res = "ok"
  /\ \E i \in 1..Len(zones) :
       /\ zones[i].id = last.id
       /\ mapCenter = BoundsCenter(zones[i].geojson)

\* C19: focus on an id that is not in the zone set leaves the view as it was;
\* focus on a zone of the set fits its bounds when its geometry has valid
\* bounds and else shows its center at its zoom; focus changes neither the
\* zone set nor the mode.
C19_FocusTotal ==
  [][last'.op = "focus"
       => /\ zones' = zones
          /\ mode' = mode
          /\ IF \A i \in 1..Len(zones) : zones[i].id # last'.id
             THEN mapCenter' = mapCenter /\ mapZoom' = mapZoom
             ELSE \E i \in 1..Len(zones) :
                    /\ zones[i].id = last'.id
                    /\ IF ~Throws(zones[i].geojson) /\ ValidBounds(zones[i].geojson)
                       THEN /\ mapCenter' = BoundsCenter(zones[i].geojson)
                            /\ mapZoom' = FitZoom(zones[i].geojson)
                       ELSE /\ mapCenter' = zones[i].center
                            /\ mapZoom' = zones[i].zoom]_vars

\* focus fell back to the center and zoom of a zone without valid bounds
C19_Witness ==
  /\ last.op = "focus"
  /\ last.res = "ok"
  /\ \E i \in 1..Len(zones) :
       /\ zones[i].id = last.id
       /\ ~safeBoundsFromGeo(zones[i].geojson)
       /\ mapCenter = zones[i].center
       /\ mapZoom = zones[i].zoom

\* the geometries of a payload that Leaflet can draw, in payload order
Drawable(p) ==
  IF p.kind \in {"array", "envelope"}
  THEN LET ok(e) == e.geojson # "none" /\ ~Throws(e.geojson)
           kept == SelectSeq(p.zones, ok)
       IN [i \in 1..Len(kept) |-> kept[i].geojson]
  ELSE <<>>

\* C16 as claimed: a mount builds its widget only when the library and the
\* draw plugin are there, and when no script fails to load every mount call
\* that has ended has succeeded.
C16_ConcurrentMountsSucceed ==
  /\ \A m \in MountIds : mounts[m].built => (libs.L /\ libs.Draw)
  /\ (\A a \in Scripts : assets[a] # "failed")
       => \A m \in MountIds : mounts[m].pc = "end" => mounts[m].out = "ok"

\* C17 as claimed: a mount call made after the error event of a script is
\* rejected with the load failure and builds nothing in its container.
C17_LaterMountRejectedUnbuilt ==
  \A m \in MountIds :
    (mounts[m].late /\ mounts[m].pc = "end")
      => (mounts[m].out = "loadFailed" /\ ~mounts[m].built)

C23_ImportNeverInView ==
  [][(last'.op = "import" /\ mode = "view") => zones' = zones]_vars

\* the layers of the zones whose geometry L.geoJSON accepts, in set order
DrawableLayers(zs) ==
  LET ok(z) == ~Throws(z.geojson)
      kept == SelectSeq(zs, ok)
  IN [i \in 1..Len(kept) |-> kept[i].geojson]

\* C24 as claimed (editor): setZones or a file import that installs a zone
\* whose geometry L.geoJSON rejects completes normally, and the main map and
\* the grid show every other zone.
C24_MalformedZoneIsSkipped ==
  [][(last'.op \in ReplaceOps /\ last'.res = "ok")
       => /\ ~last'.threw
          /\ mainLayers' = DrawableLayers(zones')
          /\ Len(grid') = Len(zones')]_vars

\* C26: the toggle button and setMode, in either direction, leave the zone
\* set as it was: the same zones with the same fields in the same order.
C26_ModeChangeKeepsZones ==
  [][last'.op \in ModeOps => zones' = zones]_vars

\* the toggle button went from edit to view on a zone set of two zones
C26_Witness ==
  /\ last.op = "toggle"
  /\ mode = "view"
  /\ Len(zones) = 2
  /\ Len(grid) = 2

\* C21: a mount without data and with a jsonUrl calls fetch once, and a
\* mount with data does not call it; a response whose status is not a
\* success status rejects the mount with an error that holds that status,
\* and the viewer shows no zones.
C21_FetchOnceAndStatusRejects ==
  \A m \in MountIds :
    /\ viewers[m].fetches <= 1
    /\ viewers[m].data # NoPayload => viewers[m].fetches = 0
    /\ (viewers[m].data = NoPayload /\ viewers[m].url
          /\ viewers[m].pc \in {"fetch", "mounted", "end"}
          /\ viewers[m].out \notin {"loadFailed", "notLoaded"})
         => viewers[m].fetches = 1
    /\ (viewers[m].got # 0 /\ ~ResOk(viewers[m].got))
         => /\ viewers[m].pc = "end"
            /\ viewers[m].out = "http"
            /\ viewers[m].status = viewers[m].got
            /\ viewers[m].shown = <<>>

\* a mount with a jsonUrl got status 404 with a body that holds a zone, and
\* was rejected with 404 in its error; it shows nothing
C21_Witness ==
  \E m \in MountIds :
    /\ viewers[m].url
    /\ viewers[m].got = 404
    /\ viewers[m].out = "http"
    /\ viewers[m].status = 404
    /\ viewers[m].fetches = 1
    /\ viewers[m].shown = <<>>

\* C25 as claimed: a stored zone that setZones or a file import has just
\* decoded has the id of its element, or a generated one; the createdAt of
\* its element, or the time of the call; the center of its element when
\* that is an array of two numbers, and else the center of its bounds (the
\* fallback coordinate without valid bounds); the zoom of its element, or 14.
C25_DecodeNormalizesFields ==
  [][(last'.op \in ReplaceOps /\ last'.res = "ok")
       => \A i \in 1..Len(zones') :
            LET e == last'.input.zones[i]
                z == zones'[i]
            IN /\ IF e.id # NoId THEN z.id = e.id
                  ELSE z.id.src = "gen" /\ z.id.t = now
               /\ z.createdAt = IF e.createdAt # 0 THEN e.createdAt ELSE now
               /\ z.center = IF e.center.arr /\ Len(e.center.v) = 2 THEN e.center.v
                             ELSE IF safeBoundsFromGeo(e.geojson)
                                  THEN BoundsCenter(e.geojson)
                                  ELSE FallbackCenter
               /\ z.zoom = IF e.zoom # 0 THEN e.zoom ELSE DefaultZoom]_vars

\* C27 as claimed: a file import whose file was selected before that of an
\* import that has already completed leaves the zone set as it was (it
\* never overwrites the result of the later selection).
C27_EarlierImportNeverOverwrites ==
  [][(last'.op = "import" /\ overtaken'.n < overtaken.n) => zones' = zones]_vars

\* C22: what getZones returns holds the zones of the zone set; a change the
\* host makes to it leaves the zone set as it was, and a later change of the
\* zone set leaves what the host holds as it was.
C22_GetZonesIsDetached ==
  [][/\ (last'.op = "getZones" /\ held.keeps)
          => /\ Len(held'.val) = Len(zones)
             /\ \A i \in 1..Len(zones) :
                  /\ held'.val[i].id = zones[i].id
                  /\ held'.val[i].geojson = zones[i].geojson
     /\ last'.op = "hostPop" => zones' = zones
     /\ last'.op \notin {"getZones", "hostPop"} => held'.val = held.val]_vars

\* the host removed an element from the copy of a set of two zones, which
\* still holds two
C22_Witness ==
  /\ last.op = "hostPop"
  /\ Len(held.val) = 1
  /\ Len(zones) = 2

====
